---- MODULE Spec2Model ----
(***************************************************************************)
(* prometheus-am-executor (src/main.go): the webhook handler, the process  *)
(* runner with its metrics, the environment encoder, and the two signal    *)
(* watchers (termination, reload) running beside the HTTP server.          *)
(*                                                                         *)
(* Go strings are modelled as sequences of one-character strings, so that  *)
(* concatenation, decimal formatting and the position of '=' are computed  *)
(* and not assumed.                                                        *)
(***************************************************************************)
EXTENDS Integers, Sequences, FiniteSets, Bags, TLC

VARIABLES
    mainPc,            \* main task: "listen", "serving", "returnedClosed",
                       \*   "returnedErr"
    termPc,            \* termination watcher: "wait", "signalled", "shutdown",
                       \*   "shutdownOk", "shutdownErr"
    hupPc,             \* reload watcher: "wait", "loading", "storing",
                       \*   "reloaded", "reloadFailed"
    hupStore,          \* the write of a loaded configuration into
                       \*   exporterConfig: the fields not yet written
    termChan,          \* signals buffered in term (capacity 1)
    hupChan,           \* signals buffered in hup (capacity 1)
    inShutdown,        \* server.Shutdown was called: listeners closed
    exitStatus,        \* -1 while the process runs, else the os.Exit status
    exporterConfig,    \* the active configuration (package variable)
    reqs,              \* the connections accepted so far, a bag: per request
                       \*   the handler's position and its response
    processesCurrent,  \* gauge am_executor_processes_current
    processDuration,   \* number of observations of the duration histogram
    errCounter,        \* errors_total: value per stage label
    errChildren,       \* stage labels for which a child counter exists
    enc,               \* calls of amDataToEnv on one payload, on their own
    tconv              \* a call of timeToStr on one timestamp, on its own

vars == <<mainPc, termPc, hupPc, termChan, hupChan, inShutdown, exitStatus,
          exporterConfig, reqs, processesCurrent, processDuration,
          errCounter, errChildren, hupStore, enc, tconv>>

----------------------------------------------------------------------------
(* Bounds *)

\* number of connections the environment opens in one behaviour
MaxRequests == 2

\* capacity of the signal channels: make(chan os.Signal, 1)
ChanCap == 1

\* number of alerts in the payloads the encoder is applied to on its own
MaxAlerts == 2

\* the timestamps timeToStr is applied to on its own lie within MaxUnix
\* seconds of the Unix epoch, on both sides
MaxUnix == 25

----------------------------------------------------------------------------
(* Strings *)

Digit(d) == CASE d = 0 -> "0" [] d = 1 -> "1" [] d = 2 -> "2" [] d = 3 -> "3"
              [] d = 4 -> "4" [] d = 5 -> "5" [] d = 6 -> "6" [] d = 7 -> "7"
              [] d = 8 -> "8" [] d = 9 -> "9"

RECURSIVE NatToStr(_)
NatToStr(n) == IF n < 10 THEN <<Digit(n)>>
               ELSE NatToStr(n \div 10) \o <<Digit(n % 10)>>

\* strconv.Itoa
Itoa(n) == IF n < 0 THEN <<"-">> \o NatToStr(-n) ELSE NatToStr(n)

S_AMX_RECEIVER     == <<"A","M","X","_","R","E","C","E","I","V","E","R">>
S_AMX_STATUS       == <<"A","M","X","_","S","T","A","T","U","S">>
S_AMX_EXTERNAL_URL == <<"A","M","X","_","E","X","T","E","R","N","A","L","_","U","R","L">>
S_AMX_ALERT_LEN    == <<"A","M","X","_","A","L","E","R","T","_","L","E","N">>
S_AMX_LABEL        == <<"A","M","X","_","L","A","B","E","L">>
S_AMX_GLABEL       == <<"A","M","X","_","G","L","A","B","E","L">>
S_AMX_ANNOTATION   == <<"A","M","X","_","A","N","N","O","T","A","T","I","O","N">>
S_AMX_ALERT_       == <<"A","M","X","_","A","L","E","R","T","_">>
S_STATUS           == <<"_","S","T","A","T","U","S">>
S_START            == <<"_","S","T","A","R","T">>
S_END              == <<"_","E","N","D">>
S_URL              == <<"_","U","R","L">>
S_LABEL            == <<"L","A","B","E","L">>
S_ANNOTATION       == <<"A","N","N","O","T","A","T","I","O","N">>
S_EQ               == <<"=">>
S_US               == <<"_">>
S_ZERO             == <<"0">>

----------------------------------------------------------------------------
(* Timestamps: time.Time.  The zero time (January 1, year 1 UTC) is told   *)
(* apart by its flag; its own Unix value is never read by timeToStr.       *)

ZeroTime == [zero |-> TRUE, unix |-> 0, nsec |-> 0]

UnixTime(s, ns) == [zero |-> FALSE, unix |-> s, nsec |-> ns]

IsZero(t) == t.zero

\* a variant of timeToStr that takes every instant up to the Unix epoch
\* for an unset time
timeToStr_NonPositiveAsZero(t) ==
    IF IsZero(t) \/ t.unix <= 0 THEN S_ZERO ELSE Itoa(t.unix)

timeToStr(t) == IF IsZero(t) THEN S_ZERO ELSE Itoa(t.unix)

----------------------------------------------------------------------------
(* The environment encoder.  Go iterates a map in an unspecified order, so *)
(* amDataToEnv(td) is the set of vectors one call can return.              *)

\* the orders in which "range" can visit the keys of a map
RangeOrders(m) ==
    LET K == DOMAIN m
        n == Cardinality(K)
    IN  {o \in [1..n -> K] : \A i, j \in 1..n : i # j => o[i] # o[j]}

RECURSIVE Flatten(_)
Flatten(ss) == IF ss = <<>> THEN <<>> ELSE Head(ss) \o Flatten(Tail(ss))

\* for k, v := range m { env = append(env, p+"_"+k+"="+v) }
MapEntries(p, m) ==
    {[i \in 1..Cardinality(DOMAIN m) |-> p \o S_US \o o[i] \o S_EQ \o m[o[i]]]
        : o \in RangeOrders(m)}

\* for p, m := range map[string]map[string]string{...} { ... }
GroupEntries(groups) ==
    LET P     == DOMAIN groups
        All   == UNION {MapEntries(p, groups[p]) : p \in P}
        Picks == {f \in [P -> All] : \A p \in P : f[p] \in MapEntries(p, groups[p])}
    IN  {Flatten([i \in 1..Cardinality(P) |-> f[o[i]]])
            : o \in RangeOrders(groups), f \in Picks}

\* a variant of AlertEntries that numbers the alerts from 0: the key is
\* built from i instead of i+1
AlertEntries_ZeroBased(i, alert) ==
    LET key    == S_AMX_ALERT_ \o Itoa(i)
        scalar == << key \o S_STATUS \o S_EQ \o alert.Status,
                     key \o S_START \o S_EQ \o timeToStr(alert.StartsAt),
                     key \o S_END \o S_EQ \o timeToStr(alert.EndsAt),
                     key \o S_URL \o S_EQ \o alert.GeneratorURL >>
        groups == (key \o S_US \o S_LABEL      :> alert.Labels) @@
                  (key \o S_US \o S_ANNOTATION :> alert.Annotations)
    IN  {scalar \o g : g \in GroupEntries(groups)}

\* a variant of AlertEntries that appends the alert's label and annotation
\* entries before its four scalar entries
AlertEntries_MapsFirst(i, alert) ==
    LET key    == S_AMX_ALERT_ \o Itoa(i + 1)
        scalar == << key \o S_STATUS \o S_EQ \o alert.Status,
                     key \o S_START \o S_EQ \o timeToStr(alert.StartsAt),
                     key \o S_END \o S_EQ \o timeToStr(alert.EndsAt),
                     key \o S_URL \o S_EQ \o alert.GeneratorURL >>
        groups == (key \o S_US \o S_LABEL      :> alert.Labels) @@
                  (key \o S_US \o S_ANNOTATION :> alert.Annotations)
    IN  {g \o scalar : g \in GroupEntries(groups)}

\* the body of the loop over td.Alerts, for the alert at 0-based index i
AlertEntries(i, alert) ==
    LET key    == S_AMX_ALERT_ \o Itoa(i + 1)
        scalar == << key \o S_STATUS \o S_EQ \o alert.Status,
                     key \o S_START \o S_EQ \o timeToStr(alert.StartsAt),
                     key \o S_END \o S_EQ \o timeToStr(alert.EndsAt),
                     key \o S_URL \o S_EQ \o alert.GeneratorURL >>
        groups == (key \o S_US \o S_LABEL      :> alert.Labels) @@
                  (key \o S_US \o S_ANNOTATION :> alert.Annotations)
    IN  {scalar \o g : g \in GroupEntries(groups)}

\* a variant of AlertsEntries that visits the alerts as "range" visits a
\* map keyed by index: every alert once, in an unspecified order
AlertsEntries_AnyOrder(alerts, i) ==
    LET n     == Len(alerts)
        All   == UNION {AlertEntries(k - 1, alerts[k]) : k \in 1..n}
        Picks == {f \in [1..n -> All] :
                     \A k \in 1..n : f[k] \in AlertEntries(k - 1, alerts[k])}
        Perms == {o \in [1..n -> 1..n] :
                     \A j, k \in 1..n : j # k => o[j] # o[k]}
    IN  {Flatten([k \in 1..n |-> f[o[k]]]) : o \in Perms, f \in Picks}

RECURSIVE AlertsEntries(_, _)
AlertsEntries(alerts, i) ==
    IF i >= Len(alerts) THEN {<<>>}
    ELSE {a \o rest : a \in AlertEntries(i, alerts[i + 1]),
                      rest \in AlertsEntries(alerts, i + 1)}

amDataToEnv(td) ==
    LET env    == << S_AMX_RECEIVER \o S_EQ \o td.Receiver,
                     S_AMX_STATUS \o S_EQ \o td.Status,
                     S_AMX_EXTERNAL_URL \o S_EQ \o td.ExternalURL,
                     S_AMX_ALERT_LEN \o S_EQ \o Itoa(Len(td.Alerts)) >>
        groups == (S_AMX_LABEL      :> td.CommonLabels) @@
                  (S_AMX_GLABEL     :> td.GroupLabels) @@
                  (S_AMX_ANNOTATION :> td.CommonAnnotations)
    IN  {env \o g \o a : g \in GroupEntries(groups),
                         a \in AlertsEntries(td.Alerts, 0)}

----------------------------------------------------------------------------
(* The alert payload (template.Data) and the request bodies *)

EmptyStr == <<>>
EmptyMap == <<>>

\* the value of &template.Data{}
ZeroData == [Receiver          |-> EmptyStr,
             Status            |-> EmptyStr,
             Alerts            |-> <<>>,
             GroupLabels       |-> EmptyMap,
             CommonLabels      |-> EmptyMap,
             CommonAnnotations |-> EmptyMap,
             ExternalURL       |-> EmptyStr]

\* the JSON type each field of template.Data decodes from
FieldType == [Receiver          |-> "string",
              Status            |-> "string",
              Alerts            |-> "array",
              GroupLabels       |-> "object",
              CommonLabels      |-> "object",
              CommonAnnotations |-> "object",
              ExternalURL       |-> "string"]

\* json.Unmarshal(data, payload) into a zero template.Data: a malformed
\* document is rejected before anything is stored; in a well-formed one a
\* member whose JSON type does not fit its field is skipped, the others are
\* stored, and the type error is returned.
Unmarshal(data) ==
    IF ~data.wellFormed
    THEN [payload |-> ZeroData, err |-> TRUE]
    ELSE LET M      == data.members
             fits(f) == f \in DOMAIN M /\ M[f].t = FieldType[f]
         IN  [payload |-> [f \in DOMAIN ZeroData |->
                              IF fits(f) THEN M[f].v ELSE ZeroData[f]],
              err     |-> \E f \in DOMAIN M : M[f].t # FieldType[f]]

AlertFiring == [Status       |-> <<"f">>,
                Labels       |-> (<<"j">> :> <<"w">>),
                Annotations  |-> EmptyMap,
                StartsAt     |-> UnixTime(12, 5),
                EndsAt       |-> ZeroTime,
                GeneratorURL |-> <<"u">>]

\* a well-formed notification: one alert, two non-empty top-level maps
BodyFiring ==
    [wellFormed |-> TRUE,
     members    |-> [Receiver     |-> [t |-> "string", v |-> <<"x">>],
                     Status       |-> [t |-> "string", v |-> <<"f">>],
                     ExternalURL  |-> [t |-> "string", v |-> <<"h">>],
                     CommonLabels |-> [t |-> "object", v |-> (<<"s">> :> <<"c">>)],
                     GroupLabels  |-> [t |-> "object", v |-> (<<"g">> :> <<"v">>)],
                     Alerts       |-> [t |-> "array",  v |-> <<AlertFiring>>]]]

\* well-formed JSON whose "status" member is a number: decoding fails with
\* a type error and leaves Status empty, the other members stored
BodyMistyped ==
    [wellFormed |-> TRUE,
     members    |-> [Receiver |-> [t |-> "string", v |-> <<"x">>],
                     Status   |-> [t |-> "number", v |-> 5],
                     Alerts   |-> [t |-> "array",  v |-> <<AlertFiring>>]]]

\* bytes that are not JSON
BodyMalformed == [wellFormed |-> FALSE, members |-> <<>>]

Bodies == {BodyFiring, BodyMistyped, BodyMalformed}

\* amDataToEnv(&payload) on the payload each body decodes to: the vectors
\* the handler's call can return, by body
EnvOfBody == [data \in Bodies |-> amDataToEnv(Unmarshal(data).payload)]

----------------------------------------------------------------------------
(* Configuration (pkg/config) and the authentication gate *)

ConfigValues == {[TLSEnabled |-> FALSE, AuthEnabled |-> FALSE],
                 [TLSEnabled |-> TRUE,  AuthEnabled |-> TRUE]}

\* the fields of the configuration struct
ConfigFields == {"TLSEnabled", "AuthEnabled"}

\* no write of a loaded configuration is under way
NoStore == [left |-> {}]

\* auth(router): with authentication enabled, a request without valid
\* credentials is answered by the gate and never reaches the router
auth(cfg, credsOk) == ~cfg.AuthEnabled \/ credsOk

----------------------------------------------------------------------------
(* Requests.  Handler invocations carry no identity in the program: the   *)
(* accepted connections are a bag of request records.                      *)

Stages == {"read", "unmarshal", "start"}

\* a connection just accepted, no request read from it yet.  afterSignal
\* is an observation, kept while the handler runs: the handler started
\* after the watcher had received the termination signal
NewConn == [pc |-> "connected", data |-> <<>>, env |-> <<>>, status |-> 0,
            errCalls |-> 0, readErr |-> FALSE, decodeErr |-> FALSE,
            runs |-> 0, runRes |-> "none", afterSignal |-> FALSE]

\* the requests there are
Reqs == BagToSet(reqs)

\* one copy of q becomes q2
Replace(B, q, q2) == (B (-) SetToBag({q})) (+) SetToBag({q2})

RECURSIVE Copies(_, _)
Copies(B, S) ==
    IF S = {} THEN 0
    ELSE LET q == CHOOSE x \in S : TRUE
         IN  CopiesIn(q, B) + Copies(B, S \ {q})

\* a variant of handleError that writes the error text with w.Write instead
\* of http.Error: the body is written, the status is left to default
handleError_BodyOnly(q) ==
    [q EXCEPT !.errCalls = q.errCalls + 1]

\* handleError(w, err): http.Error writes the 500 header unless a header was
\* already written, and appends the error text to the body
handleError(q) ==
    [q EXCEPT !.status = IF q.status = 0 THEN 500 ELSE q.status,
              !.errCalls = q.errCalls + 1]

\* the handler returns: its locals are gone, an unwritten header goes out
\* as 200
handlerReturn(q) ==
    [q EXCEPT !.pc = "done", !.data = <<>>, !.env = <<>>,
              !.afterSignal = FALSE,
              !.status = IF q.status = 0 THEN 200 ELSE q.status]

\* the request's handler has started and not returned
InFlight(q) == q.pc \in {"reading", "running"}

\* the connection is one Shutdown waits for: a handler is running on it, or
\* it is new and its first request has not arrived
Busy(q) == q.pc \in {"connected", "reading", "running"}

Alive == exitStatus = -1

\* amDataToEnv and timeToStr are not being applied on their own
EncIdle == [pc |-> "idle", td |-> ZeroData, env1 |-> <<>>, env2 |-> <<>>]
TconvIdle == [pc |-> "idle", t |-> ZeroTime, s |-> <<>>, back |-> 0]

----------------------------------------------------------------------------
(* Init: main has loaded the configuration, built the runner and the       *)
(* server and started both watchers, each of which has registered its      *)
(* channel with signal.Notify; main is about to call ListenAndServe.       *)

Init ==
    /\ mainPc = "listen"
    /\ termPc = "wait"
    /\ hupPc = "wait"
    /\ termChan = 0
    /\ hupChan = 0
    /\ inShutdown = FALSE
    /\ exitStatus = -1
    /\ exporterConfig \in ConfigValues
    /\ reqs = EmptyBag
    /\ processesCurrent = 0
    /\ processDuration = 0
    /\ errCounter = [s \in Stages |-> 0]
    /\ errChildren = {}
    /\ hupStore = NoStore
    /\ enc = EncIdle
    /\ tconv = TconvIdle

----------------------------------------------------------------------------
(* The main task: log.Fatalln(server.ListenAndServe[TLS](...)) *)

\* ListenAndServe / ListenAndServeTLS starts serving, fails to listen, or,
\* the server being shut down already, returns ErrServerClosed at once
MainListen ==
    /\ Alive
    /\ mainPc = "listen"
    /\ \/ /\ inShutdown
          /\ mainPc' = "returnedClosed"
       \/ /\ ~inShutdown
          /\ mainPc' \in {"serving", "returnedErr"}
    /\ UNCHANGED <<termPc, hupPc, termChan, hupChan, inShutdown, exitStatus,
                   exporterConfig, reqs, processesCurrent, processDuration,
                   errCounter, errChildren>>
    /\ UNCHANGED <<hupStore, enc, tconv>>

\* Serve returns ErrServerClosed as soon as Shutdown has closed the listeners
MainServeReturns ==
    /\ Alive
    /\ mainPc = "serving"
    /\ inShutdown
    /\ mainPc' = "returnedClosed"
    /\ UNCHANGED <<termPc, hupPc, termChan, hupChan, inShutdown, exitStatus,
                   exporterConfig, reqs, processesCurrent, processDuration,
                   errCounter, errChildren>>
    /\ UNCHANGED <<hupStore, enc, tconv>>

\* log.Fatalln(err): os.Exit(1), whatever the error
MainFatal ==
    /\ Alive
    /\ mainPc \in {"returnedClosed", "returnedErr"}
    /\ exitStatus' = 1
    /\ UNCHANGED <<mainPc, termPc, hupPc, termChan, hupChan, inShutdown,
                   exporterConfig, reqs, processesCurrent, processDuration,
                   errCounter, errChildren>>
    /\ UNCHANGED <<hupStore, enc, tconv>>

----------------------------------------------------------------------------
(* The termination watcher *)

\* SIGINT or SIGTERM is delivered: signal.Notify sends without blocking, a
\* signal that finds the channel full is dropped.  The channel stays
\* registered after the watcher has taken a signal: a later signal is
\* buffered and never read.
SendSigterm ==
    /\ Alive
    /\ termChan < ChanCap
    /\ termChan' = termChan + 1
    /\ UNCHANGED <<mainPc, termPc, hupPc, hupChan, inShutdown, exitStatus,
                   exporterConfig, reqs, processesCurrent, processDuration,
                   errCounter, errChildren>>
    /\ UNCHANGED <<hupStore, enc, tconv>>

\* case <-term:
TermReceive ==
    /\ Alive
    /\ termPc = "wait"
    /\ termChan > 0
    /\ termChan' = termChan - 1
    /\ termPc' = "signalled"
    /\ UNCHANGED <<mainPc, hupPc, hupChan, inShutdown, exitStatus,
                   exporterConfig, reqs, processesCurrent, processDuration,
                   errCounter, errChildren>>
    /\ UNCHANGED <<hupStore, enc, tconv>>

\* a variant of TermShutdown that leaves the listeners open
TermShutdown_KeepsListening ==
    /\ Alive
    /\ termPc = "signalled"
    /\ termPc' = "shutdown"
    /\ UNCHANGED <<mainPc, hupPc, termChan, hupChan, inShutdown, exitStatus,
                   exporterConfig, reqs, processesCurrent, processDuration,
                   errCounter, errChildren>>
    /\ UNCHANGED <<hupStore, enc, tconv>>

\* server.Shutdown(ctx) is called: the listeners are closed, then Shutdown
\* waits for the active connections
TermShutdown ==
    /\ Alive
    /\ termPc = "signalled"
    /\ termPc' = "shutdown"
    /\ inShutdown' = TRUE
    /\ UNCHANGED <<mainPc, hupPc, termChan, hupChan, exitStatus,
                   exporterConfig, reqs, processesCurrent, processDuration,
                   errCounter, errChildren>>
    /\ UNCHANGED <<hupStore, enc, tconv>>

\* Shutdown, polling, closes a new connection on which no request arrived
\* for 5 seconds, as it closes idle ones
TermShutdownClosesNew ==
    /\ Alive
    /\ termPc = "shutdown"
    /\ \E q \in Reqs :
          /\ q.pc = "connected"
          /\ reqs' = Replace(reqs, q, [q EXCEPT !.pc = "closed"])
    /\ UNCHANGED <<mainPc, termPc, hupPc, termChan, hupChan, inShutdown,
                   exitStatus, exporterConfig, processesCurrent,
                   processDuration, errCounter, errChildren>>
    /\ UNCHANGED <<hupStore, enc, tconv>>

\* Shutdown returns nil: a poll finds no connection busy
TermShutdownDone ==
    /\ Alive
    /\ termPc = "shutdown"
    /\ \A q \in Reqs : ~Busy(q)
    /\ termPc' = "shutdownOk"
    /\ UNCHANGED <<mainPc, hupPc, termChan, hupChan, inShutdown, exitStatus,
                   exporterConfig, reqs, processesCurrent, processDuration,
                   errCounter, errChildren>>
    /\ UNCHANGED <<hupStore, enc, tconv>>

\* Shutdown returns an error: the 5 second context expires before a poll
\* of Shutdown finds every connection idle (the polls are apart in time,
\* so this can happen after the last handler has returned), or closing a
\* listener failed
TermShutdownTimeout ==
    /\ Alive
    /\ termPc = "shutdown"
    /\ termPc' = "shutdownErr"
    /\ UNCHANGED <<mainPc, hupPc, termChan, hupChan, inShutdown, exitStatus,
                   exporterConfig, reqs, processesCurrent, processDuration,
                   errCounter, errChildren>>
    /\ UNCHANGED <<hupStore, enc, tconv>>

\* os.Exit(1) after a failed Shutdown, os.Exit(0) after a successful one
TermExit ==
    /\ Alive
    /\ termPc \in {"shutdownOk", "shutdownErr"}
    /\ exitStatus' = IF termPc = "shutdownErr" THEN 1 ELSE 0
    /\ UNCHANGED <<mainPc, termPc, hupPc, termChan, hupChan, inShutdown,
                   exporterConfig, reqs, processesCurrent, processDuration,
                   errCounter, errChildren>>
    /\ UNCHANGED <<hupStore, enc, tconv>>

----------------------------------------------------------------------------
(* The reload watcher: one select, not in a loop *)

\* SIGHUP is delivered
SendSighup ==
    /\ Alive
    /\ hupChan < ChanCap
    /\ hupChan' = hupChan + 1
    /\ UNCHANGED <<mainPc, termPc, hupPc, termChan, inShutdown, exitStatus,
                   exporterConfig, reqs, processesCurrent, processDuration,
                   errCounter, errChildren>>
    /\ UNCHANGED <<hupStore, enc, tconv>>

\* case <-hup:
HupReceive ==
    /\ Alive
    /\ hupPc = "wait"
    /\ hupChan > 0
    /\ hupChan' = hupChan - 1
    /\ hupPc' = "loading"
    /\ UNCHANGED <<mainPc, termPc, termChan, inShutdown, exitStatus,
                   exporterConfig, reqs, processesCurrent, processDuration,
                   errCounter, errChildren>>
    /\ UNCHANGED <<hupStore, enc, tconv>>

\* err := exporterConfig.LoadConfig(*configFile) is called.  Its body is in
\* pkg/config, not in main.go: main.go calls it on the package variable,
\* which it can only change by writing its receiver in place, and gets an
\* error back.  The load returns an error before it has written anything,
\* or begins to write the values read from the file
HupReload ==
    /\ Alive
    /\ hupPc = "loading"
    /\ \/ /\ hupPc' = "reloadFailed"
          /\ UNCHANGED hupStore
       \/ \E c \in ConfigValues :
             /\ hupPc' = "storing"
             /\ hupStore' = [old    |-> exporterConfig,
                             config |-> c,
                             left   |-> ConfigFields]
    /\ UNCHANGED <<mainPc, termPc, termChan, hupChan, inShutdown, exitStatus,
                   exporterConfig, reqs, processesCurrent, processDuration,
                   errCounter, errChildren>>
    /\ UNCHANGED <<enc, tconv>>

\* LoadConfig writes into exporterConfig, a struct held by value in a
\* package variable, through its pointer receiver: one field at a time,
\* under no lock, while handlers and main read the variable.  After the
\* last field LoadConfig returns nil; the watcher logs the reload and ends.
HupStoreField ==
    /\ Alive
    /\ hupPc = "storing"
    /\ \E f \in hupStore.left :
          /\ exporterConfig' = [exporterConfig EXCEPT ![f] = hupStore.config[f]]
          /\ IF hupStore.left = {f}
             THEN hupStore' = NoStore /\ hupPc' = "reloaded"
             ELSE /\ hupStore' = [hupStore EXCEPT !.left = hupStore.left \ {f}]
                  /\ UNCHANGED hupPc
    /\ UNCHANGED <<mainPc, termPc, termChan, hupChan, inShutdown, exitStatus,
                   reqs, processesCurrent, processDuration,
                   errCounter, errChildren>>
    /\ UNCHANGED <<enc, tconv>>

\* LoadConfig returns an error after it has begun to write: main.go does
\* not decide what a load that fails has written by then, and nothing puts
\* back the fields already written.  The watcher logs the error and ends.
HupLoadFails ==
    /\ Alive
    /\ hupPc = "storing"
    /\ hupPc' = "reloadFailed"
    /\ hupStore' = NoStore
    /\ UNCHANGED <<mainPc, termPc, termChan, hupChan, inShutdown, exitStatus,
                   exporterConfig, reqs, processesCurrent, processDuration,
                   errCounter, errChildren>>
    /\ UNCHANGED <<enc, tconv>>

----------------------------------------------------------------------------
(* The process runner: runner.run *)

RunResults == {"ok", "exit", "spawn"}

\* processesCurrent.Inc()
runEnter(gauge) == gauge + 1

\* a variant of runDeferred: Dec() written after cmd.Run() and skipped when
\* the command could not be started
runDeferred_SkippedOnSpawnFailure(gauge, res) ==
    IF res = "spawn" THEN gauge ELSE gauge - 1

\* defer processesCurrent.Dec(): runs when run returns, whatever cmd.Run()
\* returned
runDeferred(gauge, res) == gauge - 1

\* the observations run adds to processDuration: it never calls Observe
runObserved(res) == 0

----------------------------------------------------------------------------
(* The webhook handler: handleWebhook *)

\* errCounter.WithLabelValues(stage): creates the child counter of the label
\* if there is none and returns it; the handler drops the result, Inc() is
\* never called
WithLabelValues(children, stage) == children \cup {stage}

\* line 74: the read-failure branch ends in "return"
ReturnAfterReadError_Missing == FALSE
ReturnAfterReadError == TRUE

\* lines 80-83: the decode-failure branch has no "return"
ReturnAfterDecodeError_Present == TRUE
ReturnAfterDecodeError == FALSE

\* the listener accepts a connection: only while Serve runs and Shutdown
\* has not closed the listeners
Accept ==
    /\ Alive
    /\ mainPc = "serving"
    /\ ~inShutdown
    /\ BagCardinality(reqs) < MaxRequests
    /\ reqs' = reqs (+) SetToBag({NewConn})
    /\ UNCHANGED <<mainPc, termPc, hupPc, termChan, hupChan, inShutdown,
                   exitStatus, exporterConfig, processesCurrent,
                   processDuration, errCounter, errChildren>>
    /\ UNCHANGED <<hupStore, enc, tconv>>

\* the request arrives on an accepted connection; the authentication gate
\* answers it or passes it to handleWebhook, which blocks reading the body.
\* The connection's goroutine does not look at the shutdown flag before its
\* first request.
Dispatch ==
    /\ Alive
    /\ \E q \in Reqs, credsOk \in BOOLEAN :
          /\ q.pc = "connected"
          /\ reqs' = Replace(reqs, q,
                        IF auth(exporterConfig, credsOk)
                        THEN [q EXCEPT !.pc = "reading",
                                       !.afterSignal = termPc # "wait"]
                        ELSE [q EXCEPT !.pc = "rejected", !.status = 401])
    /\ UNCHANGED <<mainPc, termPc, hupPc, termChan, hupChan, inShutdown,
                   exitStatus, exporterConfig, processesCurrent,
                   processDuration, errCounter, errChildren>>
    /\ UNCHANGED <<hupStore, enc, tconv>>

\* handleWebhook from ioutil.ReadAll up to the point where run blocks in
\* cmd.Run(): read, decode, encode, processesCurrent.Inc(), start
HandleBody ==
    /\ Alive
    /\ \E q0 \in Reqs, readOk \in BOOLEAN, data \in Bodies :
          LET q1    == IF readOk THEN q0
                       ELSE [handleError(q0) EXCEPT !.readErr = TRUE]
              c1    == IF readOk THEN errChildren
                       ELSE WithLabelValues(errChildren, "read")
              stop1 == ~readOk /\ ReturnAfterReadError
              u     == Unmarshal(data)
              q2    == IF u.err
                       THEN [handleError(q1) EXCEPT !.decodeErr = TRUE]
                       ELSE q1
              c2    == IF u.err THEN WithLabelValues(c1, "unmarshal") ELSE c1
              stop2 == u.err /\ ReturnAfterDecodeError
          IN  /\ q0.pc = "reading"
              /\ IF stop1
                 THEN /\ reqs' = Replace(reqs, q0, handlerReturn(q1))
                      /\ errChildren' = c1
                      /\ UNCHANGED processesCurrent
                 ELSE IF stop2
                 THEN /\ reqs' = Replace(reqs, q0, handlerReturn(q2))
                      /\ errChildren' = c2
                      /\ UNCHANGED processesCurrent
                 ELSE /\ \E env \in EnvOfBody[data] :
                            reqs' = Replace(reqs, q0,
                                       [q2 EXCEPT !.pc = "running",
                                                  !.data = data,
                                                  !.env = env,
                                                  !.runs = q2.runs + 1])
                      /\ errChildren' = c2
                      /\ processesCurrent' = runEnter(processesCurrent)
    /\ UNCHANGED <<mainPc, termPc, hupPc, termChan, hupChan, inShutdown,
                   exitStatus, exporterConfig, processDuration, errCounter>>
    /\ UNCHANGED <<hupStore, enc, tconv>>

\* a variant of RunReturn that treats a failed command as the startup errors
\* are treated: log.Fatalln(err) instead of handleError(w, err)
RunReturn_FatalOnError ==
    /\ Alive
    /\ \E q0 \in Reqs, res \in RunResults :
          LET q1 == [q0 EXCEPT !.runRes = res]
          IN  /\ q0.pc = "running"
              /\ reqs' = Replace(reqs, q0, handlerReturn(q1))
              /\ exitStatus' = IF res = "ok" THEN exitStatus ELSE 1
              /\ processesCurrent' = runDeferred(processesCurrent, res)
              /\ processDuration' = processDuration + runObserved(res)
              /\ errChildren' = IF res = "ok" THEN errChildren
                                ELSE WithLabelValues(errChildren, "start")
    /\ UNCHANGED <<mainPc, termPc, hupPc, termChan, hupChan, inShutdown,
                   exporterConfig, errCounter>>
    /\ UNCHANGED <<hupStore, enc, tconv>>

\* cmd.Run() returns (the command exited with status 0, exited with another
\* status, or could not be started), run returns through its deferred
\* Dec(), and handleWebhook finishes
RunReturn ==
    /\ Alive
    /\ \E q0 \in Reqs, res \in RunResults :
          LET q1 == [q0 EXCEPT !.runRes = res]
              q2 == IF res = "ok" THEN q1 ELSE handleError(q1)
          IN  /\ q0.pc = "running"
              /\ reqs' = Replace(reqs, q0, handlerReturn(q2))
              /\ processesCurrent' = runDeferred(processesCurrent, res)
              /\ processDuration' = processDuration + runObserved(res)
              /\ errChildren' = IF res = "ok" THEN errChildren
                                ELSE WithLabelValues(errChildren, "start")
    /\ UNCHANGED <<mainPc, termPc, hupPc, termChan, hupChan, inShutdown,
                   exitStatus, exporterConfig, errCounter>>
    /\ UNCHANGED <<hupStore, enc, tconv>>

----------------------------------------------------------------------------

Next ==
    \/ MainListen
    \/ MainServeReturns
    \/ MainFatal
    \/ SendSigterm
    \/ TermReceive
    \/ TermShutdown
    \/ TermShutdownClosesNew
    \/ TermShutdownDone
    \/ TermShutdownTimeout
    \/ TermExit
    \/ SendSighup
    \/ HupReceive
    \/ HupReload
    \/ HupStoreField
    \/ HupLoadFails
    \/ Accept
    \/ Dispatch
    \/ HandleBody
    \/ RunReturn

Spec == Init /\ [][Next]_vars

----------------------------------------------------------------------------
(* The encoder on its own: amDataToEnv applied twice to one payload *)

\* label maps: none, one key, two keys, a key holding '=' beside the key
\* that is its text before the '=', and the empty key
LabelMaps ==
    { EmptyMap,
      (<<"a">> :> <<"1">>),
      (<<"b">> :> <<"2">>) @@ (<<"a">> :> <<"1">>),
      (<<"a">> :> <<"1">>) @@ (<<"a", "=", "b">> :> <<"2">>),
      (<<>> :> <<"e">>) }

GroupMaps == {EmptyMap, (<<"g">> :> <<"v">>)}

\* an annotation whose value holds '='
AnnotationMaps == {EmptyMap, (<<"s">> :> <<"=">>)}

\* a resolved alert: both maps non-empty, a label key that holds '=',
\* started before the Unix epoch and ended at the epoch
AlertResolved == [Status       |-> <<"r">>,
                  Labels       |-> (<<"b", "=">> :> <<"2">>),
                  Annotations  |-> (<<"s">> :> <<"t">>),
                  StartsAt     |-> UnixTime(-3, 0),
                  EndsAt       |-> UnixTime(0, 0),
                  GeneratorURL |-> EmptyStr]

AlertPool == {AlertFiring, AlertResolved}

\* the payloads (template.Data values) the encoder is applied to
Payloads ==
    {[Receiver          |-> <<"x">>,
      Status            |-> <<"f">>,
      ExternalURL       |-> <<"h">>,
      CommonLabels      |-> cl,
      GroupLabels       |-> gl,
      CommonAnnotations |-> ca,
      Alerts            |-> al]
        : cl \in LabelMaps, gl \in GroupMaps, ca \in AnnotationMaps,
          al \in UNION {[1..n -> AlertPool] : n \in 0..MaxAlerts}}

serverVars == <<mainPc, termPc, hupPc, termChan, hupChan, inShutdown,
                exitStatus, exporterConfig, reqs, processesCurrent,
                processDuration, errCounter, errChildren, hupStore>>

\* the server as Init leaves it, with one of the configurations
ServerAtRest ==
    /\ mainPc = "listen"
    /\ termPc = "wait"
    /\ hupPc = "wait"
    /\ termChan = 0
    /\ hupChan = 0
    /\ inShutdown = FALSE
    /\ exitStatus = -1
    /\ exporterConfig = [TLSEnabled |-> FALSE, AuthEnabled |-> FALSE]
    /\ reqs = EmptyBag
    /\ processesCurrent = 0
    /\ processDuration = 0
    /\ errCounter = [s \in Stages |-> 0]
    /\ errChildren = {}
    /\ hupStore = NoStore

InitEnc ==
    /\ ServerAtRest
    /\ enc \in {[pc |-> "input", td |-> td, env1 |-> <<>>, env2 |-> <<>>]
                    : td \in Payloads}
    /\ tconv = TconvIdle

\* env := amDataToEnv(payload)
EncodeOnce ==
    /\ enc.pc = "input"
    /\ \E env \in amDataToEnv(enc.td) :
          enc' = [enc EXCEPT !.pc = "once", !.env1 = env]
    /\ UNCHANGED <<serverVars, tconv>>

\* amDataToEnv(payload) once more, on the same payload
EncodeAgain ==
    /\ enc.pc = "once"
    /\ \E env \in amDataToEnv(enc.td) :
          enc' = [enc EXCEPT !.pc = "twice", !.env2 = env]
    /\ UNCHANGED <<serverVars, tconv>>

NextEnc ==
    \/ EncodeOnce
    \/ EncodeAgain

SpecEnc == InitEnc /\ [][NextEnc]_vars

----------------------------------------------------------------------------
(* timeToStr on its own: format a timestamp, read the string back *)

\* the zero time, and the instants within MaxUnix seconds of the epoch, on
\* a second boundary or inside a second
Times == {ZeroTime} \cup
         {UnixTime(u, ns) : u \in (0 - MaxUnix)..MaxUnix, ns \in {0, 5}}

DigitVal(c) == CASE c = "0" -> 0 [] c = "1" -> 1 [] c = "2" -> 2
                 [] c = "3" -> 3 [] c = "4" -> 4 [] c = "5" -> 5
                 [] c = "6" -> 6 [] c = "7" -> 7 [] c = "8" -> 8
                 [] c = "9" -> 9

RECURSIVE StrToNat(_)
StrToNat(str) == IF Len(str) = 0 THEN 0
                 ELSE 10 * StrToNat(SubSeq(str, 1, Len(str) - 1))
                          + DigitVal(str[Len(str)])

\* strconv.Atoi on the output of strconv.Itoa: the reading of a decimal
\* Unix-seconds string
Atoi(str) == IF Len(str) > 0 /\ str[1] = "-"
             THEN 0 - StrToNat(Tail(str))
             ELSE StrToNat(str)

InitTime ==
    /\ ServerAtRest
    /\ enc = EncIdle
    /\ tconv \in {[pc |-> "input", t |-> t, s |-> <<>>, back |-> 0]
                      : t \in Times}

\* timeToStr(t)
FormatTime ==
    /\ tconv.pc = "input"
    /\ tconv' = [tconv EXCEPT !.pc = "formatted", !.s = timeToStr(tconv.t)]
    /\ UNCHANGED <<serverVars, enc>>

\* the string is read back as a count of Unix seconds
ParseTime ==
    /\ tconv.pc = "formatted"
    /\ tconv' = [tconv EXCEPT !.pc = "parsed", !.back = Atoi(tconv.s)]
    /\ UNCHANGED <<serverVars, enc>>

NextTime ==
    \/ FormatTime
    \/ ParseTime

SpecTime == InitTime /\ [][NextTime]_vars

----------------------------------------------------------------------------
(* Properties *)

Exited == exitStatus # -1

\* server.Shutdown has been called by the termination watcher
ShutdownBegun == termPc \in {"shutdown", "shutdownOk", "shutdownErr"}

\* numbers of requests: all, those whose connection waits for its request,
\* those whose handler has started, those in cmd.Run(), those that failed
NumConns     == BagCardinality(reqs)
NumConnected == Copies(reqs, {q \in Reqs : q.pc = "connected"})
NumStarted   == Copies(reqs, {q \in Reqs : q.pc \in {"reading", "running", "done"}})
NumRunning   == Copies(reqs, {q \in Reqs : q.pc = "running"})
NumRan       == Copies(reqs, {q \in Reqs : q.runRes # "none"})
NumReadErr   == Copies(reqs, {q \in Reqs : q.readErr})
NumDecodeErr == Copies(reqs, {q \in Reqs : q.decodeErr})
NumRunErr    == Copies(reqs, {q \in Reqs : q.runRes \in {"exit", "spawn"}})

\* C1: when the process has exited after a termination signal and the
\* shutdown timeout did not elapse, every request whose handler was in
\* flight when the signal was received has run to completion: a handler
\* still running can only be one that started after the signal.
C1_AdmittedRequestsComplete ==
    (Exited /\ termPc \in {"signalled", "shutdown", "shutdownOk"})
        => \A q \in Reqs : InFlight(q) => q.afterSignal

\* C2: once Shutdown has been called, the exit status is the one the
\* shutdown result decides: 0 only after Shutdown returned nil, non-zero
\* only after Shutdown returned an error.
C2_ExitStatusFromShutdown ==
    (Exited /\ ShutdownBegun /\ mainPc # "returnedErr")
        => /\ exitStatus = 0 => termPc = "shutdownOk"
           /\ exitStatus # 0 => termPc = "shutdownErr"

\* C3 as stated: once shutdown has begun, no handler starts.
C3_NoHandlerStartsAfterShutdown ==
    [][ShutdownBegun => NumStarted' = NumStarted]_vars

\* C3 amended: once shutdown has begun, no new connection is accepted; a
\* handler can start only for a request on a connection that was accepted
\* before.
C3_NoConnectionAcceptedAfterShutdown ==
    [][ShutdownBegun =>
          /\ NumConns' = NumConns
          /\ NumStarted' > NumStarted => NumConnected' < NumConnected]_vars

\* C3 witness: shutdown has begun and the process runs; a handler has
\* started after the signal, on a connection accepted earlier, and the
\* environment has a connection left to try
C3_Witness ==
    /\ ShutdownBegun
    /\ Alive
    /\ \E q \in Reqs : q.pc = "reading" /\ q.afterSignal
    /\ NumConns < MaxRequests

\* C4: a reload signal that is waiting in the channel always has a watcher
\* that will take it: the watcher is waiting or is in a reload it returns
\* from.
C4_PendingSighupHasWatcher ==
    (Alive /\ hupChan > 0) => hupPc \in {"wait", "loading", "storing"}

\* C6: the gauge equals the number of run invocations in progress; it is
\* never negative and is back at 0 when every started run has returned.
C6_GaugeCountsRunsInProgress ==
    /\ processesCurrent = NumRunning
    /\ processesCurrent >= 0

\* C6 witness: one run has returned from a spawn failure while another is
\* in progress
C6_Witness ==
    /\ \E q \in Reqs : q.runRes = "spawn" /\ q.pc = "done"
    /\ \E q \in Reqs : q.pc = "running"
    /\ processesCurrent = 1

\* C7: the histogram holds one observation per completed run invocation.
C7_OneObservationPerRun == processDuration = NumRan

\* C8: each stage counter equals the number of failures of its stage.
C8_ErrorsCountedByStage ==
    /\ errCounter["read"] = NumReadErr
    /\ errCounter["unmarshal"] = NumDecodeErr
    /\ errCounter["start"] = NumRunErr

\* C9: a request whose body could not be read has ended with status 500 and
\* has never run, and the step in which the read fails leaves the gauge as
\* it was.
C9_ReadFailureAborts ==
    [][/\ \A q \in BagToSet(reqs') :
              q.readErr => /\ q.pc = "done"
                           /\ q.status = 500
                           /\ q.runs = 0
                           /\ q.runRes = "none"
       /\ NumReadErr' > NumReadErr => processesCurrent' = processesCurrent]_vars

\* C9 witness: a request has ended on a read failure, answered 500 and
\* never run, while another request's run is in progress
C9_Witness ==
    /\ \E q \in Reqs : /\ q.readErr
                       /\ q.pc = "done"
                       /\ q.status = 500
                       /\ q.runs = 0
    /\ \E q \in Reqs : q.pc = "running"
    /\ processesCurrent = 1

\* C10: every request whose body was read is run exactly once, with an
\* environment encoded from what decoding left in the payload; when decoding
\* failed the 500 response is written as well.
C10_RunOncePerReadBody ==
    \A q \in Reqs :
        /\ q.pc = "running" =>
            /\ q.runs = 1
            /\ q.env \in amDataToEnv(Unmarshal(q.data).payload)
            /\ q.decodeErr = Unmarshal(q.data).err
            /\ q.decodeErr => q.status = 500
        /\ (q.pc = "done" /\ ~q.readErr) =>
            /\ q.runs = 1
            /\ q.runRes # "none"
        /\ (q.pc = "done" /\ q.decodeErr) => q.status = 500

\* C10 witness: a command runs for a body whose "status" member did not
\* decode: the 500 is written, the environment carries the receiver, an
\* empty status and the alert
C10_Witness ==
    \E q \in Reqs :
        /\ q.pc = "running"
        /\ q.decodeErr
        /\ q.status = 500
        /\ q.data = BodyMistyped
        /\ Len(q.env) = 9
        /\ q.env[1] = S_AMX_RECEIVER \o <<"=", "x">>
        /\ q.env[2] = S_AMX_STATUS \o <<"=">>
        /\ q.env[4] = S_AMX_ALERT_LEN \o <<"=", "1">>
        /\ q.env[6] = S_AMX_ALERT_ \o <<"1","_","S","T","A","R","T","=","1","2">>

\* the failure of one of the three stages of handleWebhook on request q
Failed(q) == q.readErr \/ q.decodeErr \/ q.runRes \in {"exit", "spawn"}

\* C11: a request whose handler has returned was answered 500 with an error
\* text in the body exactly when its body read, its decode or its run
\* failed; when none failed it was answered the implicit 200 with nothing
\* written to the body.
C11_Status500IffStageFailed ==
    \A q \in Reqs : q.pc = "done" =>
        /\ (q.status = 500 /\ q.errCalls >= 1) <=> Failed(q)
        /\ ~Failed(q) => (q.status = 200 /\ q.errCalls = 0)

\* a request answered 500 after its run failed, next to one answered 200
C11_Witness ==
    /\ \E q \in Reqs : /\ q.pc = "done" /\ q.runRes = "exit"
                        /\ ~q.decodeErr /\ q.status = 500
    /\ \E q \in Reqs : q.pc = "done" /\ q.runRes = "ok" /\ q.status = 200

\* C12: while the command of a request runs, nothing of the response has
\* been written, whether or not the payload decoded, and a handler that
\* called run has not returned before the command exited or failed to start.
C12_NothingWrittenBeforeCommandExit ==
    \A q \in Reqs :
        /\ q.pc = "running" => (q.status = 0 /\ q.errCalls = 0)
        /\ (q.pc = "done" /\ q.runs > 0) => q.runRes # "none"

\* what handleWebhook answers and does for request q, from q's own body
\* read, decode and command result
ExpectedStatus(q) == IF Failed(q) THEN 500 ELSE 200
ExpectedErrCalls(q) ==
    (IF q.readErr THEN 1 ELSE 0) + (IF q.decodeErr THEN 1 ELSE 0)
        + (IF q.runRes \in {"exit", "spawn"} THEN 1 ELSE 0)
ExpectedRuns(q) == IF q.readErr THEN 0 ELSE 1

\* the failures of all requests so far
NumFailures == NumReadErr + NumDecodeErr + NumRunErr

\* C13: a step in which a stage of one request fails changes that request
\* only: the main task, both watchers, the exit status and the
\* configuration are as before (the server is still serving) and every
\* other request is untouched; and the response and run of every finished
\* request are the ones its own body read, decode and command result give.
C13_FailureIsolated ==
    /\ [][NumFailures' > NumFailures =>
            /\ UNCHANGED <<mainPc, termPc, hupPc, termChan, hupChan,
                           inShutdown, exitStatus, exporterConfig>>
            /\ BagCardinality(reqs (-) reqs') = 1
            /\ BagCardinality(reqs' (-) reqs) = 1]_vars
    /\ [](\A q \in Reqs : q.pc = "done" =>
            /\ q.status = ExpectedStatus(q)
            /\ q.errCalls = ExpectedErrCalls(q)
            /\ q.runs = ExpectedRuns(q))

\* the server still serves after one request failed in decode and in a
\* command that could not be started, another succeeded next to it
C13_Witness ==
    /\ Alive
    /\ mainPc = "serving"
    /\ \E q \in Reqs : /\ q.pc = "done" /\ q.decodeErr
                        /\ q.runRes = "spawn" /\ q.status = 500
    /\ \E q \in Reqs : /\ q.pc = "done" /\ ~Failed(q)
                        /\ q.runs = 1 /\ q.status = 200

\* C20: handleError is called at most once for a request, whatever the
\* outcomes of its body read, decode and run.
C20_HandleErrorAtMostOnce ==
    \A q \in Reqs : q.errCalls <= 1

\* the number of keys of a map
Size(m) == Cardinality(DOMAIN m)

\* the number of entries amDataToEnv appends for the three top-level maps
TopCount(td) ==
    Size(td.CommonLabels) + Size(td.GroupLabels) + Size(td.CommonAnnotations)

\* the number of entries amDataToEnv has appended before it comes to the
\* alert with 1-based index i
RECURSIVE AlertOffset(_, _)
AlertOffset(td, i) ==
    IF i = 1 THEN 4 + TopCount(td)
    ELSE AlertOffset(td, i - 1) + 4 + Size(td.Alerts[i - 1].Labels)
                                    + Size(td.Alerts[i - 1].Annotations)

\* the positions of the scalar entries: the four top-level ones, and four
\* for each alert
ScalarPositions(td) ==
    (1..4) \cup UNION {(AlertOffset(td, i) + 1)..(AlertOffset(td, i) + 4)
                          : i \in 1..Len(td.Alerts)}

\* how often e occurs in env
CountIn(env, e) == Cardinality({i \in 1..Len(env) : env[i] = e})

\* both vectors hold the same entries, each as often
SameEntries(e1, e2) ==
    /\ Len(e1) = Len(e2)
    /\ \A i \in 1..Len(e1) : CountIn(e1, e1[i]) = CountIn(e2, e1[i])

\* no "range" of amDataToEnv over td has two orders to choose from: of the
\* maps ranged over together at most one holds a key, and holds one
OneOrder(td) ==
    /\ Cardinality({g \in {"CommonLabels", "GroupLabels", "CommonAnnotations"}
                       : Size(td[g]) > 0}) <= 1
    /\ \A g \in {"CommonLabels", "GroupLabels", "CommonAnnotations"} :
          Size(td[g]) <= 1
    /\ \A i \in 1..Len(td.Alerts) :
          /\ Size(td.Alerts[i].Labels) + Size(td.Alerts[i].Annotations) <= 1

\* C14 as stated: two calls of amDataToEnv on the same payload return the
\* same vector, entry for entry, in the same order.
C14_SameVectorTwice ==
    enc.pc = "twice" => enc.env1 = enc.env2

\* C14, amended: two calls on the same payload return vectors of the same
\* length holding the same entries, with every scalar entry at the same
\* position in both; they are the same vector when no range over a map has
\* two orders to choose from.
C14_SameEntriesTwice ==
    enc.pc = "twice" =>
        /\ SameEntries(enc.env1, enc.env2)
        /\ \A i \in ScalarPositions(enc.td) : enc.env1[i] = enc.env2[i]
        /\ OneOrder(enc.td) => enc.env1 = enc.env2

\* two calls on a payload with two alerts have returned different vectors
C14_Witness ==
    /\ enc.pc = "twice"
    /\ Len(enc.td.Alerts) = 2
    /\ enc.env1 # enc.env2

\* an entry "NAME=value" as the command's environment takes it: NAME is
\* the text before the first '=', the value the text after it
EqPos(e) == CHOOSE i \in 1..Len(e) :
                e[i] = "=" /\ \A j \in 1..(i - 1) : e[j] # "="
NameOf(e) == SubSeq(e, 1, EqPos(e) - 1)
ValueOf(e) == SubSeq(e, EqPos(e) + 1, Len(e))

\* the number of entries of env whose NAME is name
NameCount(env, name) ==
    Cardinality({i \in 1..Len(env) : NameOf(env[i]) = name})

StartsWith(e, p) == Len(e) >= Len(p) /\ SubSeq(e, 1, Len(p)) = p

\* the encoder has returned a vector
Encoded == enc.pc \in {"once", "twice"}

\* C15: in every vector amDataToEnv returns, also for keys that are empty
\* or hold '=', the NAME of every entry is non-empty and no two entries
\* have the same NAME.
C15_NamesNonEmptyDistinct ==
    Encoded =>
        \A i \in 1..Len(enc.env1) :
            /\ NameOf(enc.env1[i]) # <<>>
            /\ \A j \in 1..Len(enc.env1) :
                  i # j => NameOf(enc.env1[i]) # NameOf(enc.env1[j])

\* the names of the four top-level scalar entries
TopScalarNames ==
    <<S_AMX_RECEIVER, S_AMX_STATUS, S_AMX_EXTERNAL_URL, S_AMX_ALERT_LEN>>

\* the names of the four scalar entries of an alert
AlertScalarSuffixes == <<S_STATUS, S_START, S_END, S_URL>>

\* the entries of one map under prefix p, in no order
MapEntrySet(p, m) == {p \o S_US \o k \o S_EQ \o m[k] : k \in DOMAIN m}

\* the entries of the three top-level maps, in no order
TopEntrySet(td) ==
    MapEntrySet(S_AMX_LABEL, td.CommonLabels)
        \cup MapEntrySet(S_AMX_GLABEL, td.GroupLabels)
        \cup MapEntrySet(S_AMX_ANNOTATION, td.CommonAnnotations)

\* C16: for a payload with n alerts the vector has one AMX_ALERT_LEN entry,
\* its value the decimal n; it has each of AMX_ALERT_<i>_STATUS, _START,
\* _END and _URL once for i in 1..n and for no other index, and no other
\* entry under AMX_ALERT_ belongs to an index outside 1..n; with n = 0 it
\* is the four top-level scalars, in their order, and one entry per key of
\* the three top-level maps.
C16_AlertEntriesCounted ==
    Encoded =>
        LET env == enc.env1
            n   == Len(enc.td.Alerts)
        IN  /\ NameCount(env, S_AMX_ALERT_LEN) = 1
            /\ \A i \in 1..Len(env) :
                  NameOf(env[i]) = S_AMX_ALERT_LEN => ValueOf(env[i]) = Itoa(n)
            /\ \A i \in 0..(n + 1), x \in 1..4 :
                  NameCount(env, S_AMX_ALERT_ \o Itoa(i) \o AlertScalarSuffixes[x])
                      = IF i \in 1..n THEN 1 ELSE 0
            /\ \A i \in 1..Len(env) :
                  StartsWith(env[i], S_AMX_ALERT_) =>
                      \/ NameOf(env[i]) = S_AMX_ALERT_LEN
                      \/ \E a \in 1..n :
                            StartsWith(env[i], S_AMX_ALERT_ \o Itoa(a) \o S_US)
            /\ n = 0 =>
                  /\ Len(env) = 4 + TopCount(enc.td)
                  /\ \A x \in 1..4 : NameOf(env[x]) = TopScalarNames[x]
                  /\ {env[i] : i \in 5..Len(env)} = TopEntrySet(enc.td)

\* a vector for two alerts: AMX_ALERT_LEN=2 and the scalars of alert 2
C16_Witness ==
    /\ enc.pc = "once"
    /\ Len(enc.td.Alerts) = 2
    /\ enc.env1[4] = S_AMX_ALERT_LEN \o <<"=", "2">>
    /\ NameCount(enc.env1, S_AMX_ALERT_ \o <<"2">> \o S_URL) = 1

\* every character of str is a decimal digit, after an optional minus sign
IsDecimal(str) ==
    /\ Len(str) > 0
    /\ \A i \in 1..Len(str) :
          \/ str[i] \in {"0", "1", "2", "3", "4", "5", "6", "7", "8", "9"}
          \/ i = 1 /\ str[i] = "-" /\ Len(str) > 1

\* C17: timeToStr gives "0" for the zero timestamp; for every other
\* timestamp it gives a decimal string which, read back as a count of Unix
\* seconds, is the timestamp's own second: at the epoch, before and after.
C17_TimeRoundTrip ==
    tconv.pc = "parsed" =>
        /\ IsZero(tconv.t) => tconv.s = <<"0">>
        /\ ~IsZero(tconv.t) =>
              /\ IsDecimal(tconv.s)
              /\ tconv.back = tconv.t.unix

\* a timestamp before the epoch, inside a second, read back
C17_Witness ==
    /\ tconv.pc = "parsed"
    /\ ~IsZero(tconv.t)
    /\ tconv.t.unix = -12
    /\ tconv.t.nsec = 5
    /\ tconv.s = <<"-", "1", "2">>
    /\ tconv.back = -12

\* the requests that have passed through the authentication gate
NumDispatched ==
    Copies(reqs, {q \in Reqs : q.pc \in {"reading", "running", "done", "rejected"}})

\* C18: whenever the authentication gate reads the configuration for a
\* request, what it reads is a complete configuration: during a reload the
\* one from before it or the one loaded, never fields of both.
C18_NoTornConfigRead ==
    [][NumDispatched' > NumDispatched =>
          /\ exporterConfig \in ConfigValues
          /\ hupPc = "storing" =>
                exporterConfig \in {hupStore.old, hupStore.config}]_vars

\* the bytes of the characters used in keys, ascending
ByteOrder == <<"=", "a", "b", "g", "j", "s">>
Rank(c) == CHOOSE i \in 1..Len(ByteOrder) : ByteOrder[i] = c

\* k1 < k2 as Go compares strings
RECURSIVE Less(_, _)
Less(k1, k2) ==
    IF Len(k2) = 0 THEN FALSE
    ELSE IF Len(k1) = 0 THEN TRUE
    ELSE IF k1[1] # k2[1] THEN Rank(k1[1]) < Rank(k2[1])
    ELSE Less(Tail(k1), Tail(k2))

\* the entries of map m under prefix p with the keys ascending
SortedMapEntries(p, m) ==
    LET o == CHOOSE r \in RangeOrders(m) :
                 \A i, j \in 1..Size(m) : i < j => Less(r[i], r[j])
    IN  [i \in 1..Size(m) |-> p \o S_US \o o[i] \o S_EQ \o m[o[i]]]

\* the entries of the alert with 1-based index a: scalars, labels sorted,
\* annotations sorted
SortedAlertEntries(a, alert) ==
    LET key == S_AMX_ALERT_ \o Itoa(a)
    IN  << key \o S_STATUS \o S_EQ \o alert.Status,
           key \o S_START \o S_EQ \o timeToStr(alert.StartsAt),
           key \o S_END \o S_EQ \o timeToStr(alert.EndsAt),
           key \o S_URL \o S_EQ \o alert.GeneratorURL >>
        \o SortedMapEntries(key \o S_US \o S_LABEL, alert.Labels)
        \o SortedMapEntries(key \o S_US \o S_ANNOTATION, alert.Annotations)

\* the vector in the one order of C19
FixedOrderEnv(td) ==
    << S_AMX_RECEIVER \o S_EQ \o td.Receiver,
       S_AMX_STATUS \o S_EQ \o td.Status,
       S_AMX_EXTERNAL_URL \o S_EQ \o td.ExternalURL,
       S_AMX_ALERT_LEN \o S_EQ \o Itoa(Len(td.Alerts)) >>
    \o SortedMapEntries(S_AMX_LABEL, td.CommonLabels)
    \o SortedMapEntries(S_AMX_GLABEL, td.GroupLabels)
    \o SortedMapEntries(S_AMX_ANNOTATION, td.CommonAnnotations)
    \o Flatten([a \in 1..Len(td.Alerts) |-> SortedAlertEntries(a, td.Alerts[a])])

\* C19 as stated: the entries are in one fixed order: the four scalars, all
\* AMX_LABEL_*, all AMX_GLABEL_*, all AMX_ANNOTATION_*, then per alert in
\* index order its scalars, its LABEL and its ANNOTATION entries, the keys
\* of each map ascending.
C19_FixedSortedOrder ==
    Encoded => enc.env1 = FixedOrderEnv(enc.td)

\* in env[from..to] the entries under each of the prefixes are next to one
\* another
Contiguous(env, from, to, prefixes) ==
    \A p \in prefixes : \A i, j, k \in from..to :
        (i < j /\ j < k /\ StartsWith(env[i], p) /\ StartsWith(env[k], p))
            => StartsWith(env[j], p)

\* C19, amended: the four top-level scalars come first, in their order;
\* then the entries of the three top-level maps, those of one map next to
\* one another; then for each alert in index order its four scalars in
\* their order followed by its label and annotation entries, those of one
\* map next to one another.  The order of the maps and of the keys in a
\* map is not fixed.
C19_BlockOrder ==
    Encoded =>
        LET env == enc.env1
            td  == enc.td
            n   == Len(td.Alerts)
            T   == TopCount(td)
        IN  /\ Len(env) = AlertOffset(td, n + 1)
            /\ NameOf(env[1]) = S_AMX_RECEIVER
            /\ NameOf(env[2]) = S_AMX_STATUS
            /\ NameOf(env[3]) = S_AMX_EXTERNAL_URL
            /\ NameOf(env[4]) = S_AMX_ALERT_LEN
            /\ {env[i] : i \in 5..(4 + T)} = TopEntrySet(td)
            /\ Contiguous(env, 5, 4 + T,
                          {S_AMX_LABEL \o S_US, S_AMX_GLABEL \o S_US,
                           S_AMX_ANNOTATION \o S_US})
            /\ \A a \in 1..n :
                  LET off   == AlertOffset(td, a)
                      key   == S_AMX_ALERT_ \o Itoa(a)
                      alert == td.Alerts[a]
                      last  == off + 4 + Size(alert.Labels)
                                   + Size(alert.Annotations)
                  IN  /\ \A x \in 1..4 :
                            NameOf(env[off + x]) = key \o AlertScalarSuffixes[x]
                      /\ {env[i] : i \in (off + 5)..last}
                            = MapEntrySet(key \o S_US \o S_LABEL, alert.Labels)
                              \cup MapEntrySet(key \o S_US \o S_ANNOTATION,
                                               alert.Annotations)
                      /\ Contiguous(env, off + 5, last,
                                    {key \o S_US \o S_LABEL \o S_US,
                                     key \o S_US \o S_ANNOTATION \o S_US})

\* a vector for two alerts that is not in the fixed order: annotations
\* before labels, or a greater key before a smaller one
C19_Witness ==
    /\ enc.pc = "once"
    /\ Len(enc.td.Alerts) = 2
    /\ Size(enc.td.CommonLabels) = 2
    /\ enc.env1 # FixedOrderEnv(enc.td)

====
